---- MODULE Spec2Model ----
(***************************************************************************)
(* A model of og_marl/replay_buffers.py and og_marl/offline_dataset.py:    *)
(*   - SequenceCPPRB, the online window accumulator (add, end_of_episode); *)
(*   - FlashbaxReplayBuffer, the trajectory store (add, sample) on top of  *)
(*     the flashbax trajectory buffer it is built from;                    *)
(*   - FlashbaxReplayBuffer.populate_from_dataset, the loop that stitches  *)
(*     the decoded chunks of a dataset back into episodes.                 *)
(* Arrays are sequences indexed from 1, so slot i of the code is position  *)
(* i + 1 here; cursors (t, current_index) keep the code's 0-based values.  *)
(***************************************************************************)
EXTENDS Integers, Sequences, FiniteSets, TLC

VARIABLES
    \* ---- SequenceCPPRB
    t,                \* self._t
    sequence_buffer,  \* self._sequence_buffer: key -> array of sequence_length slots
    cpprb,            \* the windows handed to self._cpprb.add, in push order
    episode_ends,     \* number of self._cpprb.on_episode_end() calls
    acc_log,          \* history: the calls made so far, each with the pushes made by its end
    np_random,        \* numpy's process-wide generator, as the number of draws made from it
    next_log,         \* history: the __next__ calls, each with the generator state it drew from
    \* ---- FlashbaxReplayBuffer
    buffer_state,     \* self._buffer_state: NoState or a TrajectoryBufferState
    rng_key,          \* self._rng_key, as the number of splits made
    batch,            \* the windows returned by the last sample() call
    added,            \* history: the timesteps given to add, in order
    raised,           \* the exception the last call ended with, "none" if it returned
    max_size,         \* self._max_size
    sample_sequence_length,  \* self._sequence_length of the store
    origin,           \* history: how the store got its contents: "none", "adds", "populate", "mixed"
    writer,           \* the add call in progress in the writer thread: Idle, or the timestep it holds
    \* ---- populate_from_dataset
    pc,               \* position of the call: "idle", "loop", "done"
    episode,          \* the per-episode accumulator: key -> list of taken values
    episode_length,   \* episode_length
    experience,       \* the emitted episodes: key -> list of episode arrays
    consumed,         \* history: the decoded chunks read so far
    recorded,         \* history: the episodes the recorder chunked
    pending,          \* the recorder's raw chunks not yet read
    period,           \* dataset.period
    chunk_length,     \* dataset.sequence_length
    max_episode_length,  \* dataset.max_episode_length
    filenames,        \* filenames of OfflineMARLDataset.__init__: <<directory index, suffix>> pairs
    filenames_sorted, \* whether line 180 has sorted them
    lookup,           \* an attribute lookup on the dataset: the __getattr__ frames and the outcome
    bins              \* a get_bin_numbers call: its arguments, loop position and result

vars == <<t, sequence_buffer, cpprb, episode_ends, acc_log, np_random, next_log,
          buffer_state, rng_key, batch, added, raised, max_size, sample_sequence_length, origin,
          writer,
          pc, episode, episode_length, experience, consumed, recorded, pending,
          period, chunk_length, max_episode_length, filenames, filenames_sorted,
          lookup, bins>>

accVars == <<t, sequence_buffer, cpprb, episode_ends, acc_log, np_random, next_log>>
storeVars == <<buffer_state, rng_key, batch, added, raised, max_size, sample_sequence_length, origin,
               writer>>
utilVars == <<lookup, bins>>
datasetVars == <<period, chunk_length, max_episode_length, filenames, filenames_sorted, utilVars>>
popVars == <<pc, episode, episode_length, experience, consumed, recorded, pending, datasetVars>>

-----------------------------------------------------------------------------
(* Bounds of the model *)

\* total number of SequenceCPPRB.add calls explored
MaxAdds == 4
\* total number of end_of_episode calls explored
MaxEnds == 2
\* largest capacity max_size a store is built with
MaxCapacity == 3
\* total number of FlashbaxReplayBuffer.add calls explored
MaxStoreAdds == 5
\* total number of sample calls explored
MaxSamples == 2
\* number of chunks of an arbitrary stream that populate_from_dataset reads
MaxChunks == 2
\* number of add calls made around a populate_from_dataset call
MaxPopAdds == 1
\* largest period of a recorded dataset
MaxPeriod == 2
\* largest overlap (sequence_length - period) of a recorded dataset
MaxOverlap == 2
\* largest max_episode_length of a recorded dataset
MaxEpisodeLength == 6
\* number of episodes the recorder writes
MaxEpisodes == 2
\* number of draws other code makes from numpy's process-wide generator
MaxDraws == 1
\* number of .tfrecord files of a dataset
MaxFiles == 3
\* the interpreter's limit on nested calls (1000 by default), scaled down
RecursionLimit == 60
\* largest value and bin edge given to get_bin_numbers
MaxBinValue == 3
\* largest number of values given to get_bin_numbers
MaxBinValues == 3

-----------------------------------------------------------------------------
(* Generic helpers *)

RECURSIVE Repeat(_, _)
\* n copies of v, as np.zeros((n, ...)) builds n rows of zeros
Repeat(v, n) == IF n <= 0 THEN <<>> ELSE <<v>> \o Repeat(v, n - 1)

\* a[lo:hi] of Python on a 1-indexed sequence: 0-based lo inclusive, hi exclusive,
\* both clipped to the array as numpy slicing clips them
Slice(a, lo, hi) ==
    LET h == IF hi > Len(a) THEN Len(a) ELSE hi
    IN  IF lo >= h THEN <<>> ELSE SubSeq(a, lo + 1, h)

RECURSIVE Concatenate(_)
\* np.concatenate(list_of_arrays, axis=0)
Concatenate(arrays) ==
    IF arrays = <<>> THEN <<>> ELSE Head(arrays) \o Concatenate(Tail(arrays))

RECURSIVE Sum(_)
\* np.sum over a 0/1 array
Sum(a) == IF a = <<>> THEN 0 ELSE Head(a) + Sum(Tail(a))

-----------------------------------------------------------------------------
(* The environment of the buffers *)

\* environment.possible_agents, in order: the first one is the reference agent
possible_agents == <<"agent_0", "agent_1">>
AgentSet == {possible_agents[i] : i \in 1..Len(possible_agents)}

-----------------------------------------------------------------------------
(* SequenceCPPRB *)

\* SequenceCPPRB(sequence_length=...)
sequence_length == 3

PerAgentFields == {"observations", "actions", "rewards", "terminals", "truncations", "legals"}

\* the keys of self._sequence_buffer for an environment whose info_spec has
\* "legals" and "state": "<agent>_<field>" for every agent, "mask" and "state"
BufferKeys == (AgentSet \X PerAgentFields) \cup {<<"", "mask">>, <<"", "state">>}

\* SequenceCPPRB.__init__: every array is np.zeros((sequence_length, ...)), t = 0
InitSequenceBuffer == [k \in BufferKeys |-> Repeat(0, sequence_length)]

\* the timesteps add is called with: a value per agent and field, and the infos
\* keys that are present ("legals" in infos, "state" in infos)
StepOf(id, done, infoKeys) ==
    [val |-> [k \in BufferKeys |-> IF k[2] \in {"terminals", "truncations"} THEN done ELSE id],
     infos |-> infoKeys,
     id |-> id]

\* the value add writes into slot t of key k, -1 when add leaves the key alone
Written(k, step) ==
    IF k[2] = "mask" THEN 1
    ELSE IF k[2] \in {"legals", "state"} /\ k[2] \notin step.infos THEN -1
    ELSE step.val[k]

\* lines 213-226 of add: write the timestep into slot self._t
WriteSlot(buf, slot, step) ==
    [k \in BufferKeys |->
        IF Written(k, step) = -1 THEN buf[k]
        ELSE [buf[k] EXCEPT ![slot + 1] = Written(k, step)]]

\* a variant of _zero_pad that clears the mask alone
ZeroPadMaskOnly(buf, slot) ==
    [k \in BufferKeys |->
        IF k[2] # "mask" THEN buf[k]
        ELSE Slice(buf[k], 0, slot) \o Repeat(0, sequence_length - slot)]

\* SequenceCPPRB._zero_pad: every key's slots [t:] become zeros
_zero_pad(buf, slot) ==
    [k \in BufferKeys |-> Slice(buf[k], 0, slot) \o Repeat(0, sequence_length - slot)]

\* SequenceCPPRB._push_to_cpprb: cpprb copies the window it is given
_push_to_cpprb(store, buf) == Append(store, buf)

\* a variant of the flush test that is one step late
FlushLate(slot) == slot > sequence_length

\* the flush test of add, after self._t += 1
FlushNow(slot) == slot = sequence_length

\* a variant of the test that also pushes at t = 0
PushPartialAlways(slot) == slot >= 0

\* a variant of the test that leaves out a partial window of one timestep
PushPartialAfterTwo(slot) == slot > 1

\* the test of end_of_episode that decides to push the partial window
PushPartial(slot) == slot > 0

\* history: the number of add calls made so far
NumAdds == Len(SelectSeq(acc_log, LAMBDA c : c.op = "add"))

\* SequenceCPPRB.add; a write at slot t >= sequence_length raises IndexError
\* at the first assignment, before anything has changed
CpprbAdd(step) ==
    /\ NumAdds < MaxAdds
    /\ t < sequence_length
    /\ LET buf == WriteSlot(sequence_buffer, t, step)
           pushed == IF FlushNow(t + 1) THEN _push_to_cpprb(cpprb, buf) ELSE cpprb
       IN  /\ sequence_buffer' = buf
           /\ cpprb' = pushed
           /\ t' = IF FlushNow(t + 1) THEN 0 ELSE t + 1
           /\ acc_log' = Append(acc_log, [op |-> "add", id |-> step.id, pushed |-> Len(pushed),
                                          done |-> step.val[<<possible_agents[1], "terminals">>],
                                          infos |-> step.infos])
    /\ UNCHANGED <<episode_ends, np_random, next_log, storeVars, popVars>>

\* a variant of end_of_episode that signals the store inside the if
SignalsOnPushOnly(slot) == slot > 0

\* whether end_of_episode reaches self._cpprb.on_episode_end(): line 239 is
\* outside the if of line 235
SignalsEpisodeEnd(slot) == TRUE

\* a variant of the last line of end_of_episode that leaves the cursor alone
CursorKept(slot) == slot

\* the last line of end_of_episode: self._t = 0
CursorAfterEpisode(slot) == 0

\* SequenceCPPRB.end_of_episode
end_of_episode ==
    /\ episode_ends < MaxEnds
    /\ LET buf == IF PushPartial(t) THEN _zero_pad(sequence_buffer, t) ELSE sequence_buffer
           pushed == IF PushPartial(t) THEN _push_to_cpprb(cpprb, buf) ELSE cpprb
       IN  /\ sequence_buffer' = buf
           /\ cpprb' = pushed
           /\ acc_log' = Append(acc_log, [op |-> "end", id |-> 0, pushed |-> Len(pushed),
                                          done |-> 0, infos |-> {}])
    /\ episode_ends' = IF SignalsEpisodeEnd(t) THEN episode_ends + 1 ELSE episode_ends
    /\ t' = CursorAfterEpisode(t)
    /\ UNCHANGED <<np_random, next_log, storeVars, popVars>>

\* the two shapes of infos that add is called with: with and without the
\* optional "legals" and "state" entries
InfoChoices == {{"legals", "state"}, {}}

\* add, called with the next timestep of the interaction (the n-th add carries id n)
AccAdd == \E done \in {0, 1}, infoKeys \in InfoChoices : CpprbAdd(StepOf(NumAdds + 1, done, infoKeys))

\* SequenceCPPRB(batch_size=...)
cpprb_batch_size == 2

\* SequenceCPPRB.__next__: self._cpprb.sample(batch_size). The accumulator is
\* built without a seed and hands none to cpprb, whose sample draws the
\* indexes of the batch with np.random.randint(0, stored_size, batch_size),
\* from numpy's process-wide generator; randint of an empty range raises
\* ValueError before it draws
__next__ ==
    /\ Len(next_log) < MaxSamples
    /\ IF cpprb = <<>>
         THEN /\ next_log' = Append(next_log, [state |-> np_random, indexes |-> <<>>, error |-> "ValueError"])
              /\ np_random' = np_random
         ELSE /\ \E indexes \in [1..cpprb_batch_size -> 1..Len(cpprb)] :
                    next_log' = Append(next_log, [state |-> np_random, indexes |-> indexes, error |-> "none"])
              /\ np_random' = np_random + 1
    /\ UNCHANGED <<t, sequence_buffer, cpprb, episode_ends, acc_log, storeVars, popVars>>

\* any other code of the process that draws from numpy's process-wide
\* generator, as np.random.choice of vault_utils/subsample_bespoke.py does
OtherDraw ==
    /\ np_random - Len(next_log) < MaxDraws
    /\ np_random' = np_random + 1
    /\ UNCHANGED <<t, sequence_buffer, cpprb, episode_ends, acc_log, next_log, storeVars, popVars>>

-----------------------------------------------------------------------------
(* FlashbaxReplayBuffer: construction, add, sample *)

\* self._buffer_state = None
NoState == [none |-> TRUE]

\* FlashbaxReplayBuffer(sample_period=1)
sample_period == 1
\* FlashbaxReplayBuffer(batch_size=...)
batch_size == 2

\* the leaves of a timestep: observations, actions, rewards, terminals,
\* truncations and infos["legals"] per agent, and infos["state"]
StoreKeys == (AgentSet \X PerAgentFields) \cup {<<"", "state">>}

\* the timestep that the n-th add call is given
TimestepOf(id, done) ==
    [k \in StoreKeys |-> IF k[2] \in {"terminals", "truncations"} THEN done ELSE id]

\* row i (0-based) of the time axis of a tree of arrays
Row(tree, i) == [k \in DOMAIN tree |-> tree[k][i + 1]]

\* the length of the time axis of a tree of arrays (the same for every leaf)
TimeAxis(tree) == Len(tree[CHOOSE k \in DOMAIN tree : TRUE])

\* self._replay_buffer.init(timestep): arrays of max_size // add_batch_size
\* empty rows shaped like the timestep, cursor 0, not full (add_batch_size = 1)
FbxInit(timestep, size) ==
    [experience |-> [k \in DOMAIN timestep |-> Repeat(0, size)],
     is_full |-> FALSE,
     current_index |-> 0]

\* a variant of the write index that is not reduced modulo the time axis
AddIndexNoWrap(state) == state.current_index

\* the slot that flashbax's add writes a one-step batch to
AddIndex(state) == state.current_index % TimeAxis(state.experience)

\* self._buffer_add_fn(state, timestep) for a batch of one timestep: write at
\* the cursor, advance it modulo the time axis, latch is_full on reaching the end
FbxAdd(state, timestep) ==
    LET size == TimeAxis(state.experience)
        new_index == state.current_index + 1
    IN  [experience |-> [k \in DOMAIN state.experience |->
                            [state.experience[k] EXCEPT ![AddIndex(state) + 1] = timestep[k]]],
         is_full |-> state.is_full \/ new_index >= size,
         current_index |-> new_index % size]

\* jax.random.randint(key, shape, 0, maxval): a value of [0, maxval), and 0
\* when the range is empty
RandInt(maxval) == IF maxval <= 0 THEN {0} ELSE 0..(maxval - 1)

\* a variant of the head that ignores the write cursor
SampleHeadZero(state) == 0

\* where flashbax's sample starts counting windows: the oldest row
SampleHead(state) == IF state.is_full THEN state.current_index ELSE 0

\* the number of window starts flashbax's sample draws from
NumValidItems(state, length) ==
    LET max_time == IF state.is_full THEN TimeAxis(state.experience) ELSE state.current_index
        max_start == max_time - length
    IN  (max_start \div sample_period) + 1

\* the window that starts at item `item`: `length` rows from the head on,
\* around the ring
WindowAt(state, item, length) ==
    [j \in 1..length |->
        Row(state.experience,
            ((j - 1) + item * sample_period + SampleHead(state)) % TimeAxis(state.experience))]

\* the windows self._buffer_sample_fn(state, key) can return as one batch element
FbxSampleWindows(state, length) ==
    {WindowAt(state, item, length) : item \in RandInt(NumValidItems(state, length))}

\* a variant of the allocation test that allocates on every add
NeedsInitAlways(state) == TRUE

\* add's lazy allocation test
NeedsInit(state) == state = NoState

\* FlashbaxReplayBuffer.add (flashbax indexes modulo the time axis, so a
\* populated store of no timestep at all is left out); pc = "done" marks a store just as
\* populate_from_dataset left it, so a write ends that
add(timestep) ==
    /\ pc \in {"idle", "done"}
    /\ Len(added) < MaxStoreAdds
    /\ buffer_state # NoState => TimeAxis(buffer_state.experience) > 0
    /\ LET state == IF NeedsInit(buffer_state) THEN FbxInit(timestep, max_size) ELSE buffer_state
       IN  buffer_state' = FbxAdd(state, timestep)
    /\ added' = Append(added, timestep)
    /\ raised' = "none"
    /\ origin' = IF origin \in {"none", "adds"} THEN "adds" ELSE "mixed"
    /\ pc' = "idle"
    /\ UNCHANGED <<rng_key, batch, max_size, sample_sequence_length, writer, accVars,
                   episode, episode_length, experience, consumed, recorded, pending, datasetVars>>

StoreAdd == \E done \in {0, 1} : add(TimestepOf(Len(added) + 1, done))

\* no add call is in progress
Idle == [idle |-> TRUE]

\* add in a writer thread of its own, lines 49-59: the timestep is built and,
\* on the first add, the allocated state is assigned to self._buffer_state;
\* a thread switch can follow any assignment
AddAllocate(timestep) ==
    /\ pc \in {"idle", "done"}
    /\ writer = Idle
    /\ Len(added) < MaxStoreAdds
    /\ buffer_state # NoState => TimeAxis(buffer_state.experience) > 0
    /\ buffer_state' = IF NeedsInit(buffer_state) THEN FbxInit(timestep, max_size) ELSE buffer_state
    /\ writer' = [timestep |-> timestep]
    /\ UNCHANGED <<rng_key, batch, added, raised, max_size, sample_sequence_length, origin,
                   accVars, popVars>>

\* add in a writer thread of its own, lines 61-62: the state returned by the
\* flashbax add is assigned to self._buffer_state
AddWrite ==
    /\ writer # Idle
    /\ buffer_state' = FbxAdd(buffer_state, writer.timestep)
    /\ added' = Append(added, writer.timestep)
    /\ raised' = "none"
    /\ origin' = IF origin \in {"none", "adds"} THEN "adds" ELSE "mixed"
    /\ writer' = Idle
    /\ UNCHANGED <<rng_key, batch, max_size, sample_sequence_length, accVars, popVars>>

ThreadAdd == \E done \in {0, 1} : AddAllocate(TimestepOf(Len(added) + 1, done))

\* a variant of sample that consumes what it returns: the cursor is rewound
StoreAfterSampleRewound(state) ==
    IF state = NoState THEN state ELSE [state EXCEPT !.is_full = FALSE, !.current_index = 0]

\* self._buffer_state when sample returns: sample assigns self._rng_key alone,
\* and the sample function returns a batch, not a state
StoreAfterSample(state) == state

\* FlashbaxReplayBuffer.sample: the key is split first; sampling from None
\* raises AttributeError inside the sample function
sample ==
    /\ pc \in {"idle", "done"}
    /\ rng_key < MaxSamples
    /\ buffer_state # NoState => TimeAxis(buffer_state.experience) > 0
    /\ rng_key' = rng_key + 1
    /\ buffer_state' = StoreAfterSample(buffer_state)
    /\ IF buffer_state = NoState
         THEN /\ raised' = "AttributeError"
              /\ batch' = batch
         ELSE /\ raised' = "none"
              /\ \E windows \in [1..batch_size -> FbxSampleWindows(buffer_state, sample_sequence_length)] :
                    batch' = [windows |-> windows, at |-> Len(added), key |-> rng_key + 1]
    /\ UNCHANGED <<added, max_size, sample_sequence_length, origin, writer, accVars, popVars>>

\* no sample() has returned yet
NoBatch == [windows |-> <<>>, at |-> 0, key |-> 0]

\* FlashbaxReplayBuffer.__init__ with the given sizes
NewStore(size, length) ==
    /\ buffer_state = NoState
    /\ rng_key = 0
    /\ batch = NoBatch
    /\ added = <<>>
    /\ raised = "none"
    /\ max_size = size
    /\ sample_sequence_length = length
    /\ origin = "none"
    /\ writer = Idle

IdleStore == NewStore(1, 1)

-----------------------------------------------------------------------------
(* OfflineMARLDataset: the recorded chunks and their decoding *)

\* the fields of a serialized chunk (the schema of get_schema_dtypes)
RawKeys ==
    (AgentSet \X {"observations", "legal_actions", "actions", "rewards", "discounts"})
        \cup {<<"", "zero_padding_mask">>, <<"", "env_state">>, <<"", "episode_return">>}

\* the fields of a decoded chunk
DecodedKeys == StoreKeys \cup {<<"", "mask">>, <<"", "episode_return">>}

\* the dtype of the actions of the environment (discrete actions)
act_type == "int64"

\* get_schema_dtypes: the dtype of every field of a serialized chunk; the
\* schema holds no shape
get_schema_dtypes ==
    [k \in RawKeys |-> IF k[2] = "actions" THEN act_type ELSE "float32"]

\* lines 192-198 of _decode_fn: tf.io.parse_tensor(example[key], dtype) raises
\* InvalidArgumentError when the serialized tensor is of another dtype; the
\* shape of the tensor is whatever was serialized
ParseFails(dtypes) == \E k \in RawKeys : dtypes[k] # get_schema_dtypes[k]

\* a variant of the terminal flags that copies the discounts
TerminalsAsDiscounts(discounts) == discounts

\* line 213 of _decode_fn: 1 - example[f"{agent}_discounts"]
Terminals(discounts) == [i \in 1..Len(discounts) |-> 1 - discounts[i]]

\* OfflineMARLDataset._decode_fn
_decode_fn(example) ==
    [k \in DecodedKeys |->
        CASE k[2] = "observations" -> example[<<k[1], "observations">>]
          [] k[2] = "actions" -> example[<<k[1], "actions">>]
          [] k[2] = "rewards" -> example[<<k[1], "rewards">>]
          [] k[2] = "terminals" -> Terminals(example[<<k[1], "discounts">>])
          [] k[2] = "truncations" ->
                [i \in 1..Len(example[<<k[1], "discounts">>]) |-> 0]
          [] k[2] = "legals" -> example[<<k[1], "legal_actions">>]
          [] k[2] = "mask" -> example[<<"", "zero_padding_mask">>]
          [] k[2] = "state" -> example[<<"", "env_state">>]
          [] k[2] = "episode_return" -> example[<<"", "episode_return">>]]

\* the kinds of recorded timestep: an ordinary step, the terminal step of all
\* agents, a step at which only the second agent is done, and zero padding
StepKinds == {"step", "terminal", "other_done", "pad"}

\* the recorded value of field k at a timestep of the given kind; padding is
\* zero in every field, discounts included, so a padded position decodes to
\* terminals = 1
RawValue(k, id, kind) ==
    IF kind = "pad" THEN 0
    ELSE CASE k[2] = "zero_padding_mask" -> 1
           [] k[2] = "discounts" ->
                IF kind = "terminal" THEN 0
                ELSE IF kind = "other_done" /\ k[1] # possible_agents[1] THEN 0
                ELSE 1
           [] OTHER -> id

\* a recorded chunk: `steps` is its timesteps as <<id, kind>> pairs
RawChunk(steps, ret) ==
    [k \in RawKeys |->
        IF k[2] = "episode_return" THEN ret
        ELSE [i \in 1..Len(steps) |-> RawValue(k, steps[i][1], steps[i][2])]]

\* the subdirectories of a dataset, by the index the os.listdir loop of lines
\* 169-172 gives them, and the numbers after "log_" in the names of their files
FileDirs == {0, 1}
FileSuffixes == {0, 1, 999, 1000}

\* the weight of the directory index in the sort key (line 176)
DirWeight == 1000

\* get_fname_idx: sub_dir_to_idx[...] * 1000 + int(suffix)
get_fname_idx(file_name) == file_name[1] * DirWeight + file_name[2]

RECURSIVE InsertByKey(_, _)
\* file_name put after the names of the sorted list whose key is not larger
InsertByKey(names, file_name) ==
    IF names = <<>> THEN <<file_name>>
    ELSE IF get_fname_idx(names[Len(names)]) <= get_fname_idx(file_name)
           THEN Append(names, file_name)
           ELSE Append(InsertByKey(SubSeq(names, 1, Len(names) - 1), file_name), names[Len(names)])

RECURSIVE sorted(_)
\* sorted(filenames, key=get_fname_idx): ascending keys, names of equal keys
\* in the order they came in (Python's sort is stable)
sorted(names) ==
    IF names = <<>> THEN <<>>
    ELSE InsertByKey(sorted(SubSeq(names, 1, Len(names) - 1)), names[Len(names)])

\* line 179: file_path.glob("**/*.tfrecord") yields the files of the
\* dataset in an order of the file system's choosing
Glob ==
    /\ ~filenames_sorted
    /\ Len(filenames) < MaxFiles
    /\ \E file_name \in FileDirs \X FileSuffixes :
          /\ \A i \in 1..Len(filenames) : filenames[i] # file_name
          /\ filenames' = Append(filenames, file_name)
    /\ UNCHANGED <<filenames_sorted, period, chunk_length, max_episode_length, utilVars,
                   pc, episode, episode_length, experience, consumed, recorded, pending,
                   storeVars, accVars>>

\* line 180: filenames = sorted(filenames, key=get_fname_idx)
SortFilenames ==
    /\ ~filenames_sorted
    /\ filenames' = sorted(filenames)
    /\ filenames_sorted' = TRUE
    /\ UNCHANGED <<period, chunk_length, max_episode_length, utilVars,
                   pc, episode, episode_length, experience, consumed, recorded, pending,
                   storeVars, accVars>>

\* the attributes OfflineMARLDataset.__init__ assigns (lines 161-189)
InstanceAttributes ==
    {"_environment", "_schema", "_agents", "raw_dataset", "period", "sequence_length",
     "max_episode_length"}

\* the attributes of the class itself
ClassAttributes == {"__init__", "_decode_fn", "__getattr__"}

\* the names looked up on a dataset: an instance attribute, a method, a name
\* meant for the wrapped tf dataset, and the wrapper attribute itself
LookupNames == {"period", "_decode_fn", "element_spec", "_tf_dataset"}

\* no lookup has been made
NoLookup == [frames |-> <<>>, outcome |-> "idle"]

\* no get_bin_numbers call has been made
NoBins == [at |-> "idle"]

\* dataset.<name>: the normal lookup finds instance and class attributes;
\* when it fails Python calls __getattr__(name)
GetAttribute ==
    /\ lookup = NoLookup
    /\ \E name \in LookupNames :
          lookup' = IF name \in InstanceAttributes \cup ClassAttributes
                      THEN [frames |-> <<>>, outcome |-> "returned"]
                      ELSE [frames |-> <<name>>, outcome |-> "running"]
    /\ UNCHANGED <<bins, period, chunk_length, max_episode_length, filenames, filenames_sorted,
                   pc, episode, episode_length, experience, consumed, recorded, pending,
                   storeVars, accVars>>

\* OfflineMARLDataset.__getattr__, the innermost frame: the else branch
\* evaluates self._tf_dataset, an attribute that no line of the class
\* assigns, so that lookup fails too and calls __getattr__("_tf_dataset");
\* at the interpreter's limit of nested calls RecursionError unwinds them all
__getattr__ ==
    /\ lookup.outcome = "running"
    /\ LET name == lookup.frames[Len(lookup.frames)]
       IN  IF name \in ClassAttributes
             THEN lookup' = [frames |-> <<>>, outcome |-> "returned"]
           ELSE IF "_tf_dataset" \in InstanceAttributes
             THEN \E result \in {"returned", "AttributeError"} :
                     lookup' = [frames |-> <<>>, outcome |-> result]
           ELSE IF Len(lookup.frames) >= RecursionLimit
             THEN lookup' = [frames |-> <<>>, outcome |-> "RecursionError"]
           ELSE lookup' = [lookup EXCEPT !.frames = Append(@, "_tf_dataset")]
    /\ UNCHANGED <<bins, period, chunk_length, max_episode_length, filenames, filenames_sorted,
                   pc, episode, episode_length, experience, consumed, recorded, pending,
                   storeVars, accVars>>

-----------------------------------------------------------------------------
(* vault_utils/subsample_bespoke.py: get_bin_numbers *)

\* the result of an index past the last bin edge
PastLastEdge == -1

\* a variant of get_bin_number without the recursive call
GetBinNumberOnce(bin_edges, bin_num, value) ==
    IF bin_num >= Len(bin_edges) THEN PastLastEdge
    ELSE IF value > bin_edges[bin_num + 1]
           THEN IF bin_num + 1 >= Len(bin_edges) THEN PastLastEdge ELSE bin_num + 1
           ELSE bin_num

RECURSIVE get_bin_number(_, _, _)
\* get_bin_number(bin_num, value) of lines 26-35, bin_edges being the
\* enclosing function's argument; bin_edges[bin_num] is position bin_num + 1
get_bin_number(bin_edges, bin_num, value) ==
    IF bin_num >= Len(bin_edges) THEN PastLastEdge
    ELSE IF value > bin_edges[bin_num + 1]
           THEN IF bin_num + 1 >= Len(bin_edges) THEN PastLastEdge
                ELSE IF value > bin_edges[bin_num + 2]
                       THEN get_bin_number(bin_edges, bin_num + 1, value)
                       ELSE bin_num + 1
           ELSE bin_num

\* the sorted arrays of values the function is given
SortedValues ==
    {v \in UNION {[1..n -> 0..MaxBinValue] : n \in 0..MaxBinValues} :
        \A i \in 1..(Len(v) - 1) : v[i] <= v[i + 1]}

\* the arrays of increasing bin edges the function is given
BinEdges ==
    {e \in UNION {[1..n -> 0..MaxBinValue] : n \in 1..(MaxBinValue + 1)} :
        \A i \in 1..(Len(e) - 1) : e[i] < e[i + 1]}

\* lines 23-37: the call, up to the loop
BinCall ==
    /\ bins = NoBins
    /\ \E sorted_values \in SortedValues, bin_edges \in BinEdges :
          bins' = [at |-> "loop", sorted_values |-> sorted_values, bin_edges |-> bin_edges,
                   i |-> 0, bin_bookmark |-> 0,
                   bin_numbers |-> Repeat(0, Len(sorted_values)), error |-> "none"]
    /\ UNCHANGED <<lookup, period, chunk_length, max_episode_length, filenames, filenames_sorted,
                   pc, episode, episode_length, experience, consumed, recorded, pending,
                   storeVars, accVars>>

\* lines 39-41: one pass of the loop. An index past the last edge raises
\* IndexError on a numpy array; on a jax array it reads the last edge again,
\* and the recursion ends with RecursionError
BinStep ==
    /\ bins.at = "loop"
    /\ bins.i < Len(bins.sorted_values)
    /\ LET bin_num == get_bin_number(bins.bin_edges, bins.bin_bookmark, bins.sorted_values[bins.i + 1])
       IN  IF bin_num = PastLastEdge
             THEN \E error \in {"IndexError", "RecursionError"} :
                     bins' = [bins EXCEPT !.at = "done", !.error = error]
             ELSE bins' = [bins EXCEPT !.bin_bookmark = bin_num,
                                       !.bin_numbers[bins.i + 1] = bin_num,
                                       !.i = @ + 1]
    /\ UNCHANGED <<lookup, period, chunk_length, max_episode_length, filenames, filenames_sorted,
                   pc, episode, episode_length, experience, consumed, recorded, pending,
                   storeVars, accVars>>

\* line 43: return bin_numbers
BinReturn ==
    /\ bins.at = "loop"
    /\ bins.i = Len(bins.sorted_values)
    /\ bins' = [bins EXCEPT !.at = "done"]
    /\ UNCHANGED <<lookup, period, chunk_length, max_episode_length, filenames, filenames_sorted,
                   pc, episode, episode_length, experience, consumed, recorded, pending,
                   storeVars, accVars>>

-----------------------------------------------------------------------------
(* FlashbaxReplayBuffer.populate_from_dataset *)

\* experience = {...: []}, episode = {...: []}
EmptyLists == [k \in StoreKeys |-> <<>>]

\* a variant of the slice that keeps the whole chunk
TakeAll(array, n) == array

\* array[idx, :period]
TakePeriod(array, n) == Slice(array, 0, n)

\* a variant of the reference agent: the last agent
LastAgent == possible_agents[Len(possible_agents)]

\* the agent whose terminal flag ends an episode: list(...values())[0]
ReferenceAgent == possible_agents[1]

\* variants of the end test: without the length cutoff, and with a cutoff
\* that is one timestep late
EpisodeEndsOnTerminalOnly(terminal, length, max_length) == terminal = 1

EpisodeEndsPastMax(terminal, length, max_length) == terminal = 1 \/ length > max_length

\* the test that ends an episode: terminal is the reference agent's flag at the
\* last taken position
EpisodeEnds(terminal, length, max_length) == terminal = 1 \/ length >= max_length

\* a variant of the emission that keeps everything that was taken
KeepTaken(array, length) == array

\* np.concatenate(...)[:episode_length] of lines 122-128
CutEpisode(array, length) == Slice(array, 0, length)

\* the TrajectoryBufferState that populate_from_dataset builds
PopulatedIndex(n) == 0

PopulatedIsFull(n) == FALSE

\* lines 70-100: the call starts with empty lists (one call per behaviour)
PopulateBegin ==
    /\ pc \in {"idle", "done"}
    /\ consumed = <<>>
    /\ pc' = "loop"
    /\ episode' = EmptyLists
    /\ experience' = EmptyLists
    /\ episode_length' = 0
    /\ raised' = "none"
    /\ UNCHANGED <<buffer_state, rng_key, batch, added, max_size, sample_sequence_length, origin,
                   writer, consumed, recorded, pending, datasetVars, accVars>>

\* lines 104-142: one pass of the loop body, for one chunk of the dataset
ReadChunk(record_bytes) ==
    /\ pc = "loop"
    /\ LET chunk == _decode_fn(record_bytes)
           zero_padding_mask == TakePeriod(chunk[<<"", "mask">>], period)
           length == episode_length + Sum(zero_padding_mask)
           taken == [k \in StoreKeys |-> Append(episode[k], TakePeriod(chunk[k], period))]
           last == taken[<<ReferenceAgent, "terminals">>][Len(taken[<<ReferenceAgent, "terminals">>])]
           ended == EpisodeEnds(last[Len(last)], length, max_episode_length)
       IN  /\ IF ended
                THEN /\ experience' =
                          [k \in StoreKeys |->
                              Append(experience[k], CutEpisode(Concatenate(taken[k]), length))]
                     /\ episode' = EmptyLists
                     /\ episode_length' = 0
                ELSE /\ experience' = experience
                     /\ episode' = taken
                     /\ episode_length' = length
           /\ consumed' = Append(consumed, [chunk |-> chunk, raw |-> record_bytes, emitted |-> ended])
    /\ UNCHANGED <<pc, recorded, datasetVars, storeVars, accVars>>

\* one pass of the loop for a serialized chunk whose tensors have the given
\* dtypes: the decoding error of _decode_fn comes out of the iteration of the
\* dataset (line 101) and ends populate_from_dataset before line 158
ReadSerialized(record_bytes, dtypes) ==
    IF ParseFails(dtypes)
      THEN /\ pc = "loop"
           /\ pc' = "idle"
           /\ raised' = "InvalidArgumentError"
           /\ UNCHANGED <<buffer_state, rng_key, batch, added, max_size, sample_sequence_length,
                          origin, writer, episode, episode_length, experience, consumed,
                          recorded, datasetVars, accVars>>
      ELSE ReadChunk(record_bytes)

\* a variant of the installation that keeps the rows the store held
InstalledAfterPrior(state, arrays) ==
    IF state = NoState THEN arrays
    ELSE [k \in StoreKeys |-> state.experience[k] \o arrays[k]]

\* lines 156-158: the experience of the state assigned to self._buffer_state is
\* the concatenated arrays; the state the store held is not consulted
Installed(state, arrays) == arrays

\* lines 144-158: concatenate the episodes and install the new buffer state;
\* np.concatenate of an empty list raises ValueError
PopulateFinish ==
    /\ pc = "loop"
    /\ pending = <<>>
    /\ IF experience[<<ReferenceAgent, "observations">>] = <<>>
         THEN /\ raised' = "ValueError"
              /\ pc' = "idle"
              /\ UNCHANGED <<buffer_state, origin>>
         ELSE /\ raised' = "none"
              /\ pc' = "done"
              /\ origin' = "populate"
              /\ LET arrays == [k \in StoreKeys |-> Concatenate(experience[k])]
                     n == Len(arrays[<<ReferenceAgent, "observations">>])
                 IN  buffer_state' = [experience |-> Installed(buffer_state, arrays),
                                      is_full |-> PopulatedIsFull(n),
                                      current_index |-> PopulatedIndex(n)]
    /\ UNCHANGED <<rng_key, batch, added, max_size, sample_sequence_length, writer,
                   episode, episode_length, experience, consumed, recorded, pending, datasetVars, accVars>>

\* a dataset with the given chunking, not yet read
NewDataset(p, n, m) ==
    /\ pc = "idle"
    /\ episode = EmptyLists
    /\ episode_length = 0
    /\ experience = EmptyLists
    /\ consumed = <<>>
    /\ recorded = <<>>
    /\ pending = <<>>
    /\ period = p
    /\ chunk_length = n
    /\ max_episode_length = m
    /\ filenames = <<>>
    /\ filenames_sorted = FALSE
    /\ lookup = NoLookup
    /\ bins = NoBins

IdlePopulate == NewDataset(1, 1, 1)

InitAcc ==
    /\ t = 0
    /\ sequence_buffer = InitSequenceBuffer
    /\ cpprb = <<>>
    /\ episode_ends = 0
    /\ acc_log = <<>>
    /\ np_random = 0
    /\ next_log = <<>>

AccInit == InitAcc /\ IdleStore /\ IdlePopulate

AccNext == AccAdd \/ end_of_episode

\* the accumulator under any interleaving of add and end_of_episode calls
SpecAcc == AccInit /\ [][AccNext]_vars

\* a store of any capacity up to MaxCapacity, sampling windows that fit in it
StoreInit ==
    /\ \E size \in 1..MaxCapacity : \E length \in 1..size : NewStore(size, length)
    /\ InitAcc
    /\ IdlePopulate

StoreNext == StoreAdd \/ sample

\* the store under incremental adds and samples
SpecStore == StoreInit /\ [][StoreNext]_vars

\* the two samplers of the module side by side, in a process where other
\* code draws random numbers too: a short interaction fills each of them
SeedsAccAdd == NumAdds < 1 /\ AccAdd

SeedsStoreAdd == Len(added) < 1 /\ StoreAdd

SeedsNext == SeedsAccAdd \/ end_of_episode \/ __next__ \/ OtherDraw \/ SeedsStoreAdd \/ sample

SpecSeeds == AccInit /\ [][SeedsNext]_vars

ThreadsNext == ThreadAdd \/ AddWrite \/ sample

\* the store with add calls in one thread and sample calls in another: the
\* steps of the two threads interleave at the assignments of add
SpecThreads == StoreInit /\ [][ThreadsNext]_vars

\* the next chunk of an arbitrary stream: any kinds in the positions that are
\* read; the positions past the period are never read
SerializedChunk(kinds, length) ==
    RawChunk([j \in 1..length |->
                 IF j <= period THEN <<Len(consumed) * period + j, kinds[j]>> ELSE <<0, "pad">>],
             Len(consumed) + 1)

StreamChunk(kinds) == SerializedChunk(kinds, chunk_length)

ReadAny ==
    /\ Len(consumed) < MaxChunks
    /\ \E kinds \in [1..period -> StepKinds] : ReadChunk(StreamChunk(kinds))
    /\ UNCHANGED pending

\* add calls around the populate_from_dataset call: at most one before it
PopAdd ==
    /\ Len(added) < MaxPopAdds
    /\ origin \in {"none", "populate", "mixed"}
    /\ add(TimestepOf(100 + Len(added), 0))

\* the chunkings and length limits of the arbitrary streams
StreamPeriods == {1, 2}
StreamMaxLengths == {2, 3}

PopulateInit ==
    /\ \E p \in StreamPeriods, m \in StreamMaxLengths : NewDataset(p, 2 * p, m)
    /\ NewStore(MaxCapacity, 2)
    /\ InitAcc

\* the first sample call on the store once populate_from_dataset has filled it
PopSample ==
    /\ origin \in {"populate", "mixed"}
    /\ batch = NoBatch
    /\ sample

PopulateNext == PopAdd \/ PopulateBegin \/ ReadAny \/ PopulateFinish \/ PopSample

\* populate_from_dataset on any stream of chunks, with adds and samples around it
SpecPopulate == PopulateInit /\ [][PopulateNext]_vars

FilesNext == Glob \/ SortFilenames

\* OfflineMARLDataset.__init__ on any set of chunk files
SpecFiles == AccInit /\ [][FilesNext]_vars

GetAttrNext == GetAttribute \/ __getattr__

\* attribute lookups on an OfflineMARLDataset
SpecGetAttr == AccInit /\ [][GetAttrNext]_vars

BinsNext == BinCall \/ BinStep \/ BinReturn

\* get_bin_numbers on any sorted values and increasing bin edges
SpecBins == AccInit /\ [][BinsNext]_vars

\* the dtypes of a serialized chunk: those of the schema, or another dtype
\* in one field
SerializedDTypes ==
    {get_schema_dtypes}
        \cup {[get_schema_dtypes EXCEPT ![k] = IF @ = "float32" THEN "int64" ELSE "float32"] :
                  k \in {<<possible_agents[1], "actions">>, <<"", "zero_padding_mask">>}}

\* the next chunk of a dataset whose chunks were all recorded with 2 * period
\* positions, whatever sequence_length DATASET_INFO declares
ReadAnySerialized ==
    /\ Len(consumed) < MaxChunks
    /\ \E kinds \in [1..period -> StepKinds], dtypes \in SerializedDTypes :
          ReadSerialized(SerializedChunk(kinds, 2 * period), dtypes)
    /\ UNCHANGED pending

\* a dataset whose declared sequence_length is or is not the recorded one
IngestInit ==
    /\ \E p \in StreamPeriods, m \in StreamMaxLengths :
          \E n \in {2 * p, 2 * p + 1} : NewDataset(p, n, m)
    /\ NewStore(MaxCapacity, 1)
    /\ InitAcc

IngestNext == PopulateBegin \/ ReadAnySerialized \/ PopulateFinish

\* populate_from_dataset on serialized chunks that may disagree with the schema
SpecIngest == IngestInit /\ [][IngestNext]_vars

\* the recorder: an episode of L timesteps, the last one terminal unless the
\* episode was cut at max_episode_length, written as chunks of chunk_length
\* timesteps taken every period steps and zero-padded on the right
EpisodeSteps(first, L, terminated) ==
    [j \in 1..L |-> <<first + j, IF j = L /\ terminated THEN "terminal" ELSE "step">>]

\* the number of chunks of an episode of L timesteps: the last chunk is the
\* one whose first period positions hold timestep L
NumChunks(L) == (L + period - 1) \div period

ChunkOf(steps, i) ==
    [j \in 1..chunk_length |->
        IF i * period + j <= Len(steps) THEN steps[i * period + j] ELSE <<0, "pad">>]

RecordEpisode ==
    /\ pc = "loop"
    /\ pending = <<>>
    /\ Len(recorded) < MaxEpisodes
    /\ \E L \in 1..max_episode_length, terminated \in BOOLEAN :
          /\ terminated \/ L = max_episode_length
          /\ LET first == Len(Concatenate(recorded))
                 steps == EpisodeSteps(first, L, terminated)
             IN  /\ recorded' = Append(recorded, steps)
                 /\ pending' = [i \in 1..NumChunks(L) |->
                                   RawChunk(ChunkOf(steps, i - 1), Len(recorded) + 1)]
    /\ UNCHANGED <<pc, episode, episode_length, experience, consumed, datasetVars, storeVars, accVars>>

ReadRecorded ==
    /\ pending # <<>>
    /\ ReadChunk(Head(pending))
    /\ pending' = Tail(pending)

RoundTripInit ==
    /\ \E p \in 1..MaxPeriod, overlap \in 0..MaxOverlap, m \in 1..MaxEpisodeLength :
          NewDataset(p, p + overlap, m)
    /\ NewStore(MaxCapacity, 1)
    /\ InitAcc

RoundTripNext == PopulateBegin \/ RecordEpisode \/ ReadRecorded \/ PopulateFinish

\* populate_from_dataset on the chunks of recorded episodes
SpecRoundTrip == RoundTripInit /\ [][RoundTripNext]_vars

-----------------------------------------------------------------------------
(* Properties of SequenceCPPRB *)

MaskKey == <<"", "mask">>
ObsKey == <<possible_agents[1], "observations">>

RECURSIVE Run(_)
\* the number of consecutive add calls that end at call i of the history
Run(i) == IF i = 0 THEN 0 ELSE IF acc_log[i].op = "end" THEN 0 ELSE 1 + Run(i - 1)

\* the number of windows pushed when call i of the history returned
PushedAt(i) == IF i = 0 THEN 0 ELSE acc_log[i].pushed

\* C3 (accumulator flush property): sequence_length add calls in a row that
\* start at t = 0 make exactly one push, made by the last of them, whose mask
\* is all 1; end_of_episode after r adds, 0 < r < sequence_length, makes exactly
\* one push, whose mask is 1 in the first r slots and 0 in the others.
FlushProperty ==
    \A i \in 1..Len(acc_log) :
        LET e == acc_log[i]
            r == Run(i - 1)
        IN  /\ (e.op = "add" /\ Run(i) = sequence_length) =>
                  /\ PushedAt(i - 1) = PushedAt(i - sequence_length)
                  /\ e.pushed = PushedAt(i - 1) + 1
                  /\ cpprb[e.pushed][MaskKey] = Repeat(1, sequence_length)
            /\ (e.op = "end" /\ r \in 1..(sequence_length - 1)) =>
                  /\ PushedAt(i - 1) = PushedAt(i - 1 - r)
                  /\ e.pushed = PushedAt(i - 1) + 1
                  /\ cpprb[e.pushed][MaskKey] = Repeat(1, r) \o Repeat(0, sequence_length - r)

\* a full window and a partial window have both been pushed
FlushWitness ==
    /\ \E i \in 1..Len(acc_log) : acc_log[i].op = "add" /\ Run(i) = sequence_length
    /\ \E i \in 1..Len(acc_log) : acc_log[i].op = "end" /\ Run(i - 1) \in 1..(sequence_length - 1)
    /\ Len(cpprb) >= 2

\* the (window, slot) pairs of the pushed windows that hold timestep id as valid data
Holders(id) ==
    {ws \in (1..Len(cpprb)) \X (1..sequence_length) :
        cpprb[ws[1]][MaskKey][ws[2]] = 1 /\ cpprb[ws[1]][ObsKey][ws[2]] = id}

\* C4 (no duplicate pushes): a call pushes at most one window; there are at
\* most one push per sequence_length additions plus one per episode end; an
\* end_of_episode that directly follows the add that completed a window pushes
\* nothing; no added timestep is valid data of two pushed slots.
NoDuplicatePushes ==
    /\ \A i \in 1..Len(acc_log) : PushedAt(i) - PushedAt(i - 1) \in {0, 1}
    /\ Len(cpprb) <= (NumAdds \div sequence_length) + episode_ends
    /\ \A i \in 1..Len(acc_log) :
          (acc_log[i].op = "end" /\ Run(i - 1) > 0 /\ Run(i - 1) % sequence_length = 0)
              => PushedAt(i) = PushedAt(i - 1)
    /\ \A id \in 1..NumAdds : Cardinality(Holders(id)) <= 1

\* end_of_episode was called right after the add that completed a window
NoDuplicateWitness ==
    \E i \in 1..Len(acc_log) :
        /\ acc_log[i].op = "end"
        /\ Run(i - 1) = sequence_length
        /\ Len(cpprb) >= 1

\* C5 (padding property): every pushed window has sequence_length slots in
\* every field, and where its mask is 0 every other field is 0.
PaddingProperty ==
    \A w \in 1..Len(cpprb) :
        /\ \A k \in BufferKeys : Len(cpprb[w][k]) = sequence_length
        /\ \A s \in 1..sequence_length :
              cpprb[w][MaskKey][s] = 0 => \A k \in BufferKeys : cpprb[w][k][s] = 0

\* a padded window was pushed from a buffer that an earlier full window had filled
PaddingWitness ==
    \E w \in 2..Len(cpprb) :
        /\ cpprb[w - 1][MaskKey] = Repeat(1, sequence_length)
        /\ cpprb[w][MaskKey][1] = 1
        /\ cpprb[w][MaskKey][sequence_length] = 0

\* C19 (episode boundary signal): every end_of_episode call signals the
\* store's episode-end hook exactly once and leaves t = 0, whether it pushed
\* a partial window (t > 0 at the call) or not; called at t = 0 it pushes no
\* window.
EpisodeEndSignalled ==
    [][(Len(acc_log') = Len(acc_log) + 1 /\ acc_log'[Len(acc_log')].op = "end") =>
          /\ episode_ends' = episode_ends + 1
          /\ t' = 0
          /\ t = 0 => cpprb' = cpprb
          /\ t > 0 => Len(cpprb') = Len(cpprb) + 1]_vars

\* end_of_episode was called once with a partial window and once at t = 0
EpisodeEndWitnessBoth ==
    /\ episode_ends = 2
    /\ \E i \in 1..Len(acc_log) : acc_log[i].op = "end" /\ Run(i - 1) = 0
    /\ \E i \in 1..Len(acc_log) : acc_log[i].op = "end" /\ Run(i - 1) \in 1..(sequence_length - 1)
    /\ t = 0

\* C23 (accumulator cursor): whenever an add or end_of_episode call has
\* returned, 0 <= t < sequence_length, so the slot the next add writes is one
\* of the sequence_length slots of the window buffer.
CursorInvariant ==
    /\ t \in 0..(sequence_length - 1)
    /\ \A k \in BufferKeys : Len(sequence_buffer[k]) = sequence_length

\* the cursor is back at 0 right after the add that filled the window, and
\* an end_of_episode had reset it from a partial window before
CursorWitness ==
    /\ t = 0
    /\ episode_ends >= 1
    /\ Len(cpprb) = 2
    /\ acc_log # <<>>
    /\ acc_log[Len(acc_log)].op = "add"
    /\ Run(Len(acc_log)) = sequence_length

RECURSIVE ValidSlots(_)
\* the (window, slot) pairs of the first w pushed windows whose mask is 1, in
\* push order and, within a window, in slot order
ValidSlots(w) ==
    IF w = 0 THEN <<>>
    ELSE ValidSlots(w - 1) \o
            SelectSeq([slot \in 1..sequence_length |-> <<w, slot>>],
                      LAMBDA ws : cpprb[ws[1]][MaskKey][ws[2]] = 1)

\* history: the add calls made so far, in order
AddCalls == SelectSeq(acc_log, LAMBDA c : c.op = "add")

\* C24 (accumulator conservation): when the calls made so far end with an
\* end_of_episode, the mask == 1 slots of the pushed windows, read in push
\* order, are as many as the add calls, and the n-th of them holds what the
\* n-th add call wrote, in every field that call wrote: no timestep is lost
\* and none is there twice.
Conservation ==
    (acc_log # <<>> /\ acc_log[Len(acc_log)].op = "end") =>
        LET slots == ValidSlots(Len(cpprb))
            calls == AddCalls
        IN  /\ Len(slots) = Len(calls)
            /\ \A n \in 1..Len(calls) :
                  LET step == StepOf(calls[n].id, calls[n].done, calls[n].infos)
                  IN  \A k \in BufferKeys \ {MaskKey} :
                          Written(k, step) # -1 =>
                              cpprb[slots[n][1]][k][slots[n][2]] = Written(k, step)

\* four adds, pushed as a full window and a partial window of one timestep,
\* and then end_of_episode
ConservationWitness ==
    /\ acc_log # <<>>
    /\ acc_log[Len(acc_log)].op = "end"
    /\ NumAdds = sequence_length + 1
    /\ Len(cpprb) = 2
    /\ cpprb[2][MaskKey] = <<1>> \o Repeat(0, sequence_length - 1)

\* the episode the n-th added timestep belongs to: an episode ends with the
\* timestep whose done flag is set
EpisodeOfAdd(n) == 1 + Cardinality({m \in 1..(n - 1) : AddCalls[m].done = 1})

\* end_of_episode is called after the last add of every episode: nothing but
\* end_of_episode follows an add whose done flag is set
EndsCalled ==
    \A i \in 1..Len(acc_log) :
        (acc_log[i].op = "add" /\ acc_log[i].done = 1 /\ i < Len(acc_log)) =>
            acc_log[i + 1].op = "end"

\* C25 (one episode per window): when end_of_episode is called after the last
\* add of every episode, the mask == 1 slots of a pushed window were all
\* written during the same episode.
OneEpisodePerWindow ==
    EndsCalled =>
        \A w \in 1..Len(cpprb) : \A a, b \in 1..sequence_length :
            (cpprb[w][MaskKey][a] = 1 /\ cpprb[w][MaskKey][b] = 1) =>
                EpisodeOfAdd(cpprb[w][ObsKey][a]) = EpisodeOfAdd(cpprb[w][ObsKey][b])

\* an episode that ended in a partial window, followed by a window of two or
\* more timesteps of the second episode
OneEpisodeWitness ==
    /\ EndsCalled
    /\ \E w \in 1..(Len(cpprb) - 1) :
          /\ cpprb[w][MaskKey][sequence_length] = 0
          /\ cpprb[w + 1][MaskKey][2] = 1
          /\ EpisodeOfAdd(cpprb[w + 1][ObsKey][1]) = 2

-----------------------------------------------------------------------------
(* Properties of FlashbaxReplayBuffer under incremental adds *)

\* the rows of the store read around the ring from the write cursor on
OldestFirst(state) ==
    [i \in 1..TimeAxis(state.experience) |->
        Row(state.experience, (state.current_index + i - 1) % TimeAxis(state.experience))]

\* the last n timesteps given to add before the `at`-th add returned
MostRecent(at, n) == SubSeq(added, at - n + 1, at)

Range(f) == {f[i] : i \in DOMAIN f}

\* C2 (ring-buffer property): after max_size + k single-timestep adds to an
\* empty store, the store holds exactly the last max_size added timesteps, in
\* add order from the write cursor on, and a sample() made then returns only
\* timesteps among those max_size.
RingBufferProperty ==
    /\ (buffer_state # NoState /\ Len(added) >= max_size) =>
          /\ TimeAxis(buffer_state.experience) = max_size
          /\ buffer_state.is_full
          /\ OldestFirst(buffer_state) = MostRecent(Len(added), max_size)
    /\ (batch # NoBatch /\ batch.at >= max_size) =>
          \A b \in 1..batch_size : \A j \in 1..sample_sequence_length :
              batch.windows[b][j] \in Range(MostRecent(batch.at, max_size))

\* a store of capacity 3 was sampled after 3 + 2 adds
RingBufferWitness ==
    /\ max_size = 3
    /\ Len(added) = max_size + 2
    /\ batch # NoBatch
    /\ batch.at = Len(added)

\* C9 (sampled windows follow add order): a window sampled from a store that
\* has taken max_size adds or more is sample_sequence_length timesteps that
\* were added one right after the other, oldest first, all among the last
\* max_size added; so with max_size = 3, sample_sequence_length = 3 and four
\* adds A, B, C, D every window is [B, C, D].
SampledWindowsConsecutive ==
    (batch # NoBatch /\ batch.at >= max_size) =>
        \A b \in 1..batch_size :
            \E j \in (batch.at - max_size + 1)..(batch.at - sample_sequence_length + 1) :
                batch.windows[b] = SubSeq(added, j, j + sample_sequence_length - 1)

\* the scenario: capacity 3, windows of 3, sampled after adds A, B, C, D
SampledWindowsWitness ==
    /\ max_size = 3
    /\ sample_sequence_length = 3
    /\ batch # NoBatch
    /\ batch.at = 4
    /\ \A b \in 1..batch_size : batch.windows[b] = SubSeq(added, 2, 4)

\* C11 (sample leaves the store alone): a sample() call, whatever it returns
\* or raises, changes neither the stored timesteps nor the write cursor nor
\* the full flag; it advances the random key of the store.
SampleFrame ==
    [][rng_key' # rng_key =>
          /\ buffer_state' = buffer_state
          /\ rng_key' = rng_key + 1
          /\ added' = added]_vars

\* two sample() calls have returned from a store that has wrapped around
SampleFrameWitness ==
    /\ rng_key = 2
    /\ batch # NoBatch
    /\ buffer_state # NoState
    /\ buffer_state.is_full
    /\ buffer_state.current_index > 0

\* C12 (sampling an empty store): a sample() call on a store that no add and
\* no populate_from_dataset has written to ends with an EmptyBufferError and
\* leaves the store without contents.
EmptySampleRaises ==
    (origin = "none" /\ rng_key > 0) =>
        /\ raised = "EmptyBufferError"
        /\ buffer_state = NoState

RECURSIVE StoreAfterAdds(_)
\* the store after the first n add calls of the history have returned
StoreAfterAdds(n) ==
    IF n = 0 THEN NoState
    ELSE LET before == StoreAfterAdds(n - 1)
         IN  FbxAdd(IF before = NoState THEN FbxInit(added[n], max_size) ELSE before, added[n])

\* C13 (add is atomic for a concurrent sample): the store that a sample()
\* call reads is the store as it was when some add call had returned and the
\* next one had not started changing it: never a store in between, the first
\* add (allocation, then write) included.
AddAtomicForSample ==
    [][rng_key' # rng_key => buffer_state \in {StoreAfterAdds(n) : n \in 0..Len(added)}]_vars

\* C14 (sampling randomness is owned and reproducible): the generator state
\* that the n-th sampling call of a store draws from depends on the store's
\* seed and on n alone, so that stores with one seed and the same data return
\* the same windows: the key of a batch is the store's own key after some of
\* its own splits, and no sampling call draws from a generator that other
\* code of the process advances.
OwnedRandomness ==
    /\ batch # NoBatch => batch.key \in 1..rng_key
    /\ \A n \in 1..Len(next_log) :
          next_log[n].state = Cardinality({j \in 1..(n - 1) : next_log[j].error = "none"})

-----------------------------------------------------------------------------
(* Properties of populate_from_dataset *)

\* episode n of the recorder as populate_from_dataset should return it: its
\* timesteps decoded, without chunking
Original(n) == _decode_fn(RawChunk(recorded[n], n))

\* C1 (round trip): once every chunk of the recorded episodes has been read,
\* the emitted episodes are the recorded episodes, field for field, in order
\* and with their lengths, nothing is left in the accumulator, and the store
\* that populate_from_dataset builds holds their concatenation.
RoundTrip ==
    (pc \in {"loop", "done"} /\ pending = <<>>) =>
        /\ \A k \in StoreKeys :
              /\ Len(experience[k]) = Len(recorded)
              /\ \A n \in 1..Len(recorded) :
                    /\ experience[k][n] = Original(n)[k]
                    /\ Len(experience[k][n]) = Len(recorded[n])
        /\ episode = EmptyLists
        /\ episode_length = 0
        /\ pc = "done" =>
              \A k \in StoreKeys :
                  buffer_state.experience[k] =
                      Concatenate([n \in 1..Len(recorded) |-> Original(n)[k]])

\* the scenario: period 2, chunks of 4, an episode of 6 timesteps read from 3
\* chunks, after an episode whose last chunk is cut by padding
RoundTripWitness ==
    /\ pc = "done"
    /\ period = 2
    /\ chunk_length = 4
    /\ Len(recorded) = 2
    /\ Len(recorded[1]) = 3
    /\ Len(recorded[2]) = 6
    /\ recorded[2][6][2] = "terminal"
    /\ Len(consumed) = 5
    /\ Len(buffer_state.experience[<<ReferenceAgent, "observations">>]) = 9

\* the positions of decoded chunk i of the stream that the loop takes
TakenSlice(i, k) == Slice(consumed[i].chunk[k], 0, period)

RECURSIVE LastReset(_)
\* the last chunk before chunk i + 1 at which an episode was emitted, 0 if none
LastReset(i) == IF i = 0 THEN 0 ELSE IF consumed[i].emitted THEN i ELSE LastReset(i - 1)

\* what chunks first + 1 .. i contributed to field k
TakenFrom(first, i, k) ==
    Concatenate([j \in 1..(i - first) |-> TakenSlice(first + j, k)])

\* what has been taken since the last reset when chunk i has been appended
TakenAt(i, k) == TakenFrom(LastReset(i - 1), i, k)

\* the number of mask == 1 entries taken since the last reset
LengthAt(i) == Sum(TakenAt(i, <<"", "mask">>))

\* the reference agent's terminal flag at the last position taken from chunk i
LastTerminal(i) ==
    TakenSlice(i, <<possible_agents[1], "terminals">>)[Len(TakenSlice(i, <<possible_agents[1], "terminals">>))]

\* the number of episodes emitted when chunk i has been read
EmittedAt(i) == Cardinality({j \in 1..i : consumed[j].emitted})

\* C6 (episode end rule): reading a chunk emits an episode exactly when the
\* reference agent's terminal flag at the last taken position is 1 or the
\* mask == 1 entries taken since the last reset number max_episode_length or
\* more; the emitted episode is the first episode_length entries of what was
\* taken since the last reset, in every field; the emission leaves the
\* accumulator empty with episode_length 0, and otherwise the accumulator
\* holds everything taken since the last reset.
EpisodeEndRule ==
    /\ \A i \in 1..Len(consumed) :
          LET first == LastReset(i - 1)
              length == Sum(TakenFrom(first, i, <<"", "mask">>))
              n == EmittedAt(i)
          IN  /\ consumed[i].emitted <=> (LastTerminal(i) = 1 \/ length >= max_episode_length)
              /\ consumed[i].emitted =>
                    \A k \in StoreKeys :
                        /\ Len(experience[k]) >= n
                        /\ Len(experience[k][n]) = length
                        /\ experience[k][n] = SubSeq(TakenFrom(first, i, k), 1, length)
    /\ \A k \in StoreKeys : Len(experience[k]) = EmittedAt(Len(consumed))
    /\ IF consumed = <<>> \/ consumed[Len(consumed)].emitted
         THEN episode = EmptyLists /\ episode_length = 0
         ELSE /\ episode_length = LengthAt(Len(consumed))
              /\ \A k \in StoreKeys : Concatenate(episode[k]) = TakenAt(Len(consumed), k)

\* one episode was emitted at the length cutoff with no terminal flag, and the
\* next one at a terminal flag, cut to fewer entries than were taken
EpisodeEndWitness ==
    /\ Len(consumed) = 2
    /\ consumed[1].emitted
    /\ LastTerminal(1) = 0
    /\ consumed[2].emitted
    /\ LastTerminal(2) = 1
    /\ LengthAt(2) = 1
    /\ Len(TakenAt(2, <<"", "mask">>)) = 2

\* C15 (emitted episodes are cut at the first end event): every emitted
\* episode has at most max_episode_length timesteps, and none of its timesteps
\* but the last is a terminal step of the reference agent.
EpisodeCutAtFirstEnd ==
    \A n \in 1..Len(experience[<<possible_agents[1], "terminals">>]) :
        LET flags == experience[<<possible_agents[1], "terminals">>][n]
        IN  /\ Len(flags) <= max_episode_length
            /\ \A j \in 1..(Len(flags) - 1) : flags[j] = 0

\* C16 (chunk decoding): for every agent and position of a decoded chunk,
\* terminals is 1 where the stored discount is 0 and 0 where it is 1,
\* truncations is 0, and observations, actions, rewards, legal actions, the
\* zero-padding mask, the env state and the episode return are the stored ones.
DecodeProperty ==
    \A i \in 1..Len(consumed) :
        LET raw == consumed[i].raw
            chunk == consumed[i].chunk
        IN  /\ \A agent \in AgentSet :
                  /\ Len(chunk[<<agent, "terminals">>]) = Len(raw[<<agent, "discounts">>])
                  /\ Len(chunk[<<agent, "truncations">>]) = Len(raw[<<agent, "discounts">>])
                  /\ \A j \in 1..Len(raw[<<agent, "discounts">>]) :
                        /\ chunk[<<agent, "terminals">>][j] =
                              (IF raw[<<agent, "discounts">>][j] = 0 THEN 1 ELSE 0)
                        /\ chunk[<<agent, "truncations">>][j] = 0
                  /\ chunk[<<agent, "observations">>] = raw[<<agent, "observations">>]
                  /\ chunk[<<agent, "actions">>] = raw[<<agent, "actions">>]
                  /\ chunk[<<agent, "rewards">>] = raw[<<agent, "rewards">>]
                  /\ chunk[<<agent, "legals">>] = raw[<<agent, "legal_actions">>]
            /\ chunk[<<"", "mask">>] = raw[<<"", "zero_padding_mask">>]
            /\ chunk[<<"", "state">>] = raw[<<"", "env_state">>]
            /\ chunk[<<"", "episode_return">>] = raw[<<"", "episode_return">>]

\* a chunk was decoded in which one agent's discount is 0 where the other's
\* is 1, next to a padded position
DecodeWitness ==
    \E i \in 1..Len(consumed) :
        /\ consumed[i].raw[<<possible_agents[1], "discounts">>][1] = 1
        /\ consumed[i].raw[<<possible_agents[2], "discounts">>][1] = 0
        /\ consumed[i].chunk[<<possible_agents[2], "terminals">>][1] = 1
        /\ consumed[i].raw[<<"", "zero_padding_mask">>][2] = 0

\* the errors with which the decoding of a chunk can end
DecodingErrors == {"InvalidArgumentError", "SchemaMismatchError"}

\* C17 (schema mismatch): a chunk whose field shapes or dtypes are not the
\* declared ones is never taken by the loop, and the decoding that rejects
\* it ends with a SchemaMismatchError.
SchemaMismatchAborts ==
    /\ \A i \in 1..Len(consumed) :
          \A k \in RawKeys \ {<<"", "episode_return">>} : Len(consumed[i].raw[k]) = chunk_length
    /\ raised \in DecodingErrors => raised = "SchemaMismatchError"

\* C18 (file order): the sorted files are read subdirectory by subdirectory
\* in the order of the directory indexes, and within a subdirectory in
\* strictly increasing order of the numeric suffix, whatever the suffixes are.
FileOrder ==
    filenames_sorted =>
        \A i \in 1..Len(filenames) : \A j \in (i + 1)..Len(filenames) :
            \/ filenames[i][1] < filenames[j][1]
            \/ filenames[i][1] = filenames[j][1] /\ filenames[i][2] < filenames[j][2]

\* C20 (all-padding chunks): a chunk whose taken slice has mask 0 throughout
\* contributes no timestep, wherever it comes in the stream: reading it emits
\* the episode accumulated before it, which is the first entries of what the
\* chunks before it gave, as many as their mask counts valid, in every field;
\* so no position of the padding chunk is in an emitted episode, and the
\* emitted episode is neither shorter nor longer for it.
PaddingChunkProperty ==
    \A i \in 1..Len(consumed) :
        Sum(TakenSlice(i, <<"", "mask">>)) = 0 =>
            LET first == LastReset(i - 1)
                valid == Sum(TakenFrom(first, i - 1, <<"", "mask">>))
                n == EmittedAt(i)
            IN  /\ consumed[i].emitted
                /\ \A k \in StoreKeys :
                      /\ Len(experience[k]) >= n
                      /\ experience[k][n] = SubSeq(TakenFrom(first, i - 1, k), 1, valid)
                      /\ Len(experience[k][n]) = valid

\* an all-padding chunk was read after a chunk of valid timesteps that had
\* not ended its episode
PaddingChunkWitness ==
    /\ Len(consumed) = 2
    /\ ~consumed[1].emitted
    /\ Sum(TakenSlice(1, <<"", "mask">>)) = period
    /\ Sum(TakenSlice(2, <<"", "mask">>)) = 0
    /\ period = 2
    /\ Len(experience[<<possible_agents[1], "observations">>][1]) = 2

RECURSIVE DetectedEpisodes(_, _)
\* field k of the episodes whose end was detected in chunks 1 .. i of the
\* stream, one after the other: an episode is the first entries of what was
\* taken since the reset before it, as many as the mask counts valid
DetectedEpisodes(i, k) ==
    IF i = 0 THEN <<>>
    ELSE DetectedEpisodes(i - 1, k) \o
            (IF consumed[i].emitted THEN SubSeq(TakenAt(i, k), 1, LengthAt(i)) ELSE <<>>)

\* C26 (bulk population replaces the contents): once populate_from_dataset
\* has returned, and until the next add, every field of the store is the
\* concatenation, in stream order, of the episodes whose end was detected;
\* what was taken after the last detected end is not in the store, and no row
\* of the store is a timestep that add had written before the call.
PopulateReplaces ==
    (pc = "done" /\ origin = "populate") =>
        /\ \A k \in StoreKeys :
              buffer_state.experience[k] = DetectedEpisodes(Len(consumed), k)
        /\ \A timestep \in Range(added) :
              \A r \in 1..TimeAxis(buffer_state.experience) :
                  Row(buffer_state.experience, r - 1) # timestep

\* populate_from_dataset has returned on a store that add had written to; the
\* stream held one detected episode and then a chunk of valid timesteps that
\* did not end an episode
PopulateReplacesWitness ==
    /\ pc = "done"
    /\ origin = "populate"
    /\ Len(added) = 1
    /\ Len(consumed) = 2
    /\ consumed[1].emitted
    /\ ~consumed[2].emitted
    /\ Sum(TakenSlice(2, <<"", "mask">>)) > 0
    /\ TimeAxis(buffer_state.experience) = LengthAt(1)
    /\ LengthAt(1) > 0

\* C21 (attribute delegation): looking up a name that is neither an instance
\* attribute nor a class attribute ends by returning the wrapped object's
\* attribute or with an AttributeError: it never ends any other way.
GetAttrDelegates ==
    lookup.outcome \in {"idle", "running", "returned", "AttributeError"}

CursorAfterPopulate ==
    pc = "done" =>
        /\ buffer_state.current_index = TimeAxis(buffer_state.experience)
        /\ buffer_state.is_full <=> (TimeAxis(buffer_state.experience) >= max_size)

\* C8 (bounded store): the backing arrays never hold more than max_size timesteps.
StoreBounded ==
    buffer_state # NoState => TimeAxis(buffer_state.experience) <= max_size

\* the rows first .. first + n - 1 (0-based) of the store
Rows(first, n) == [j \in 1..n |-> Row(buffer_state.experience, first + j - 1)]

\* the row at which emitted episode n starts in the populated store
Offset(n) ==
    Len(Concatenate(SubSeq(experience[<<possible_agents[1], "observations">>], 1, n - 1)))

\* the windows of a populated store that lie within one emitted episode
PopulatedWindows ==
    UNION {{Rows(Offset(n) + s, sample_sequence_length) :
               s \in 0..(Len(experience[<<possible_agents[1], "observations">>][n]) - sample_sequence_length)} :
           n \in 1..Len(experience[<<possible_agents[1], "observations">>])}

\* the timesteps an add-filled store holds, oldest first
Held == MostRecent(Len(added), IF Len(added) < max_size THEN Len(added) ELSE max_size)

\* the windows of an add-filled store: consecutive held timesteps with no
\* terminal step of the reference agent before the last one
AddedWindows ==
    {SubSeq(Held, s, s + sample_sequence_length - 1) : s \in
        {s \in 1..(Len(Held) - sample_sequence_length + 1) :
            \A j \in s..(s + sample_sequence_length - 2) :
                Held[j][<<possible_agents[1], "terminals">>] = 0}}

\* C10 (sampling coverage): every stored window of sample_sequence_length
\* timesteps that lies within one episode is among the windows sample() can
\* return.
SamplingCoverage ==
    (/\ buffer_state # NoState
     /\ origin \in {"adds", "populate"}
     /\ TimeAxis(buffer_state.experience) > 0) =>
        (IF origin = "populate" THEN PopulatedWindows ELSE AddedWindows)
            \subseteq FbxSampleWindows(buffer_state, sample_sequence_length)

====
